---- MODULE Spec2Model ----
(***************************************************************************)
(* music_recode: the execution engine of the batch converter.              *)
(*                                                                         *)
(*   src/recode/__main__.py  create_plans, main, exec_worker               *)
(*   src/recode/recode.py    Plan, FFMpegPlan, CopyPlan                    *)
(*                                                                         *)
(* main() discovers the plans, hands them to a ThreadPoolExecutor with     *)
(* executor.map and iterates the results in order.  Every worker thread    *)
(* runs exec_worker(plan): plan.execute() and then one advance of the      *)
(* "Files Processed" task.  The external programs (ffprobe, ffmpeg) and    *)
(* the filesystem are the environment: what they answer for a file is      *)
(* part of the file's record in the tree that Init draws.                  *)
(***************************************************************************)
EXTENDS Integers, Sequences, FiniteSets, TLC

(***************************************************************************)
(* Bounds of the model.                                                    *)
(***************************************************************************)
MaxJobs == 2
MaxPool == 2
MaxLines == 2
MaxFiles == 4

(***************************************************************************)
(* Program constants.                                                      *)
(***************************************************************************)
\* rich's add_task gives a task total=100.0 unless told otherwise
DefaultTotal == 100
\* duration: seconds to microseconds
UsPerSecond == 1000000

None == "None"

(***************************************************************************)
(* Text.  A str is a sequence of one-character strings.                    *)
(***************************************************************************)
Whitespace == {" ", "\n", "\t", "\r"}

DecimalChars == <<"0", "1", "2", "3", "4", "5", "6", "7", "8", "9">>

\* the value of a decimal character: its place in DecimalChars
DigitValue(c) == (CHOOSE i \in 1..10 : DecimalChars[i] = c) - 1

\* str.isdecimal(): non-empty and every character a decimal digit
IsDecimal(value) ==
    /\ Len(value) > 0
    /\ \A i \in 1..Len(value) : \E d \in 1..10 : DecimalChars[d] = value[i]

\* int(value) for a decimal string
RECURSIVE ParseInt(_)
ParseInt(value) ==
    IF Len(value) = 0 THEN 0
    ELSE 10 * ParseInt(SubSeq(value, 1, Len(value) - 1))
         + DigitValue(value[Len(value)])

\* str.strip(): leading and trailing whitespace removed
RECURSIVE LStrip(_)
LStrip(s) ==
    IF Len(s) > 0 /\ Head(s) \in Whitespace THEN LStrip(Tail(s)) ELSE s

RECURSIVE RStrip(_)
RStrip(s) ==
    IF Len(s) > 0 /\ s[Len(s)] \in Whitespace
    THEN RStrip(SubSeq(s, 1, Len(s) - 1))
    ELSE s

Strip(s) == RStrip(LStrip(s))

\* str.partition("="): split at the first "=", or (s, "", "") without one
Partition(s) ==
    IF \E i \in 1..Len(s) : s[i] = "="
    THEN LET at == CHOOSE i \in 1..Len(s) :
                      /\ s[i] = "="
                      /\ \A k \in 1..(i - 1) : s[k] # "="
         IN  [key |-> SubSeq(s, 1, at - 1), sep |-> <<"=">>,
              value |-> SubSeq(s, at + 1, Len(s))]
    ELSE [key |-> s, sep |-> <<>>, value |-> <<>>]

\* the one key _handle_state_update recognises
OutTimeUs == <<"o", "u", "t", "_", "t", "i", "m", "e", "_", "u", "s">>

(***************************************************************************)
(* The transcoder's progress stream: what ffmpeg writes on stdout.         *)
(***************************************************************************)
\* a number as ffmpeg prints it
RECURSIVE FormatInt(_)
FormatInt(n) ==
    IF n < 10 THEN <<DecimalChars[n + 1]>>
    ELSE FormatInt(n \div 10) \o <<DecimalChars[(n % 10) + 1]>>

KeyValueLine(key, value) == key \o <<"=">> \o value \o <<"\n">>

ProgressLine(us) == KeyValueLine(OutTimeUs, FormatInt(us))

\* elapsed times a stream reports
ProgressValues == {0, 7, 12, 500000}

ValidLines ==
    {ProgressLine(us) : us \in ProgressValues}
        \cup {<<" ">> \o ProgressLine(7)}

\* out_time_us lines whose value is not a decimal integer
NonDecimalLines ==
    { KeyValueLine(OutTimeUs, <<"N", "/", "A">>),
      KeyValueLine(OutTimeUs, <<>>),
      KeyValueLine(OutTimeUs, <<"-", "5">>),
      KeyValueLine(OutTimeUs, <<"7", "=", "8">>),
      OutTimeUs \o <<"\n">> }

\* lines with another key
OtherKeyLines ==
    { KeyValueLine(<<"p", "r", "o", "g", "r", "e", "s", "s">>, <<"e", "n", "d">>),
      KeyValueLine(<<"o", "u", "t", "_", "t", "i", "m", "e", "_", "m", "s">>, <<"7">>),
      KeyValueLine(OutTimeUs \o <<" ">>, <<"7">>),
      <<"\n">> }

Lines == ValidLines \cup NonDecimalLines \cup OtherKeyLines

RECURSIVE SeqsUpTo(_, _)
SeqsUpTo(S, n) ==
    IF n = 0 THEN {<<>>}
    ELSE LET shorter == SeqsUpTo(S, n - 1)
         IN  shorter \cup {Append(s, x) : s \in {t \in shorter : Len(t) = n - 1}, x \in S}

(***************************************************************************)
(* Files.  A file of the source tree and what the environment answers for  *)
(* it: path is the rank of its source path in the sort order, dir its      *)
(* directories below the source root, name = stem + suffix its source.name *)
(* and source.suffix; probe, hasTags, tags, hasDuration and seconds are    *)
(* ffprobe's answer; launch is mkdir and Popen of ffmpeg, stream and exit  *)
(* are what ffmpeg writes and returns, hang an ffmpeg that neither writes  *)
(* on nor exits after its stream; copy is mkdir and shutil.copy.           *)
(***************************************************************************)
TagKeys == {"TITLE", "ALBUM", "ARTIST"}

FullTags == [k \in TagKeys |-> IF k = "TITLE" THEN "Song"
                               ELSE IF k = "ALBUM" THEN "Album" ELSE "Artist"]

EmptyTags == [k \in {} |-> ""]

File(stem, suffix) ==
    [path |-> 0, dir |-> <<>>, stem |-> stem, suffix |-> suffix,
     name |-> stem \o suffix,
     probe |-> "ok", hasTags |-> TRUE, tags |-> FullTags,
     hasDuration |-> TRUE, seconds |-> 1,
     launch |-> "ok", stream |-> <<>>, exit |-> 0, hang |-> FALSE,
     copy |-> "ok"]

CopyFile == File("track", ".mp3")

FlacFile == File("song", ".flac")

\* the progress stream of the failing-transcode scenario: 500000, then N/A
ScenarioStream ==
    <<ProgressLine(500000), KeyValueLine(OutTimeUs, <<"N", "/", "A">>)>>

\* the files the scheduler is run on: a job that succeeds, a job whose
\* failure is printed and a job whose failure is raised, of either type
SchedulerFiles ==
    { CopyFile,
      [CopyFile EXCEPT !.copy = "oserror"],
      [FlacFile EXCEPT !.stream = ScenarioStream],
      [FlacFile EXCEPT !.stream = ScenarioStream, !.exit = 1],
      [FlacFile EXCEPT !.probe = "exit_nonzero"] }

\* the other ways a transcode can go wrong before ffmpeg runs
FailingFiles ==
    { [FlacFile EXCEPT !.probe = "exit_nonzero"],
      [FlacFile EXCEPT !.probe = "bad_json"],
      [FlacFile EXCEPT !.hasTags = FALSE, !.tags = EmptyTags],
      [FlacFile EXCEPT !.hasDuration = FALSE],
      [FlacFile EXCEPT !.launch = "oserror"] }

\* the files the transcode driver is run on: every stream, both exits
DriverFiles ==
    { [FlacFile EXCEPT !.stream = s, !.exit = e] :
          s \in SeqsUpTo(Lines, MaxLines), e \in {0, 1} }

\* a tree in the order of the walk, its files ranked by source path
Ranked(files) == [i \in 1..Len(files) |-> [files[i] EXCEPT !.path = i]]

SchedulerTrees ==
    {Ranked(fs) : fs \in SeqsUpTo(SchedulerFiles, MaxJobs) \ {<<>>}}

\* a transcode alone, or a file behind a copy that fails
DriverTrees ==
    {Ranked(<<f>>) : f \in DriverFiles \cup FailingFiles}
        \cup {Ranked(<<[CopyFile EXCEPT !.copy = "oserror"], f>>) :
                  f \in SchedulerFiles \cup FailingFiles}

\* a transcode whose ffmpeg writes one progress line and never terminates
HangFile == [FlacFile EXCEPT !.stream = <<ProgressLine(7)>>, !.hang = TRUE]

\* the files next to it: their external steps all terminate, well or not
TerminatingFiles ==
    { CopyFile,
      [CopyFile EXCEPT !.copy = "oserror"],
      [FlacFile EXCEPT !.stream = <<ProgressLine(7)>>],
      [FlacFile EXCEPT !.stream = <<ProgressLine(7)>>, !.exit = 1],
      [FlacFile EXCEPT !.probe = "exit_nonzero"] }

\* a tree in which exactly one file's ffmpeg hangs
HangTrees ==
    {Ranked(fs) : fs \in {w \in SeqsUpTo(TerminatingFiles \cup {HangFile}, MaxJobs) :
                              Cardinality({i \in 1..Len(w) : w[i].hang}) = 1}}

\* the files discovery is run on, path their rank in the order of the
\* source paths: .localized < Live/D.FLAC < a.flac < b.mp3 < c.jpg < e.xyz
DiscoveryFiles ==
    { [File(".localized", "") EXCEPT !.path = 1],
      [File("D", ".FLAC") EXCEPT !.path = 2, !.dir = <<"Live">>,
                                 !.probe = "exit_nonzero"],
      [File("a", ".flac") EXCEPT !.path = 3, !.stream = <<ProgressLine(7)>>],
      [File("b", ".mp3") EXCEPT !.path = 4],
      [File("c", ".jpg") EXCEPT !.path = 5],
      [File("e", ".xyz") EXCEPT !.path = 6] }

\* the walks of a tree: its files once each, in any order
Walks(files, n) ==
    {w \in SeqsUpTo(files, n) :
         \A i, k \in 1..Len(w) : i # k => w[i] # w[k]}

DiscoveryTrees == Walks(DiscoveryFiles, MaxFiles)

(***************************************************************************)
(* create_plan: the plan of one file, or None.                             *)
(***************************************************************************)
ignored_globs == {".localized"}

TranscodeSuffixes == {".ape", ".flac", ".m4a", ".mp4"}

CopySuffixes == {".ogg", ".cue", ".mp3"}

\* str.lower() on the suffixes of the trees
Lower(suffix) ==
    CASE suffix = ".FLAC" -> ".flac"
      [] suffix = ".MP3" -> ".mp3"
      [] suffix = ".JPG" -> ".jpg"
      [] OTHER -> suffix

\* the two roots main() is called with
SourceRoot == <<"music">>

DestRoot == <<"out">>

\* a path: its directories, and the stem and suffix of its last part
SourcePath(file) ==
    [parts |-> SourceRoot \o file.dir, stem |-> file.stem, suffix |-> file.suffix]

\* Path.relative_to(root): the parts below root
relative_to(path, root) ==
    [path EXCEPT !.parts = SubSeq(@, Len(root) + 1, Len(@))]

\* root / relative
Join(root, relative) == [relative EXCEPT !.parts = root \o @]

\* create_plans, line 61: dest / local_source.relative_to(source)
local_dest(file) == Join(DestRoot, relative_to(SourcePath(file), SourceRoot))

\* Path.with_suffix
KeepSuffix(path, suffix) == path

with_suffix(path, suffix) == [path EXCEPT !.suffix = suffix]

\* None is the empty sequence, a plan a sequence of one
create_plan(file) ==
    IF file.name \in ignored_globs THEN <<>>
    ELSE IF Lower(file.suffix) \in TranscodeSuffixes
    THEN <<[source |-> file.path, name |-> file.name,
            dest |-> with_suffix(local_dest(file), ".ogg"),
            type |-> "File Recode", env |-> file]>>
    ELSE IF Lower(file.suffix) \in CopySuffixes
    THEN <<[source |-> file.path, name |-> file.name,
            dest |-> local_dest(file),
            type |-> "File Copy", env |-> file]>>
    ELSE <<>>

\* the list as the loop appended it
Unsorted(plans) == plans

\* sorted(out, key=lambda v: v.source)
RECURSIVE SortBySource(_)
SortBySource(plans) ==
    IF Len(plans) = 0 THEN <<>>
    ELSE LET least == CHOOSE i \in 1..Len(plans) :
                          \A k \in 1..Len(plans) :
                              /\ plans[i].source <= plans[k].source
                              /\ (plans[i].source = plans[k].source => i <= k)
             rest == [k \in 1..(Len(plans) - 1) |->
                          IF k < least THEN plans[k] ELSE plans[k + 1]]
         IN  <<plans[least]>> \o SortBySource(rest)

\* the plans of the files of a walk, in walk order
RECURSIVE PlansOf(_)
PlansOf(files) ==
    IF Len(files) = 0 THEN <<>>
    ELSE create_plan(Head(files)) \o PlansOf(Tail(files))

(***************************************************************************)
(* State.                                                                  *)
(*   max_workers  the pool size, os.cpu_count()                            *)
(*   tree         the files under the source root, in walk order           *)
(*   main         where main() is: pc, i the plan it submits or waits for, *)
(*                k the future it cancels next                             *)
(*   tasks        the sorted plans                                         *)
(*   handle       task_progress's task of each plan                        *)
(*   job          each plan's own fields and where its execute() is        *)
(*   future       the state of each plan's Future                          *)
(*   queue        the executor's work queue                                *)
(*   threads      the executor's worker threads                            *)
(*   idle         the executor's idle semaphore                            *)
(*   total        total_progress: files scanned and selected, and the      *)
(*                "Files Processed" task; a total not yet set is <<>>      *)
(***************************************************************************)
VARIABLES max_workers, tree, main, tasks, handle, job, future, queue,
          threads, idle, total

vars == <<max_workers, tree, main, tasks, handle, job, future, queue,
          threads, idle, total>>

Jobs == 1..Len(tasks)

Threads == 1..Len(threads)

\* add_task with rich's defaults: visible and started
NewHandleVisible(plan) ==
    [description |-> [artist |-> None, album |-> None, title |-> plan.name],
     total |-> DefaultTotal, completed |-> 0,
     visible |-> TRUE, started |-> TRUE, operation_type |-> plan.type]

\* Plan.__post_init__: add_task(description=name, start=False, visible=False)
NewHandle(plan) ==
    [description |-> [artist |-> None, album |-> None, title |-> plan.name],
     total |-> DefaultTotal, completed |-> 0,
     visible |-> FALSE, started |-> FALSE, operation_type |-> plan.type]

\* a plan's fields after construction: progress_us = 0, nothing cached
NewJob ==
    [pc |-> "new", taken |-> FALSE, progress_us |-> 0, line |-> <<>>, read |-> 0,
     format_cached |-> FALSE, probes |-> 0, launched |-> FALSE,
     executions |-> 0, hidden |-> 0, invalid |-> <<>>, failed |-> <<>>]

StartAt(trees, exists, pools) ==
    /\ max_workers \in pools
    /\ tree \in trees
    /\ main = [pc |-> "create_plans", source_exists |-> exists, i |-> 0, k |-> 0]
    /\ tasks = <<>>
    /\ handle = <<>>
    /\ job = <<>>
    /\ future = <<>>
    /\ queue = <<>>
    /\ threads = <<>>
    /\ idle = 0
    /\ total = [scanned |-> 0, selected |-> <<>>, processed |-> 0,
                processed_total |-> <<>>]

Start(trees) == StartAt(trees, TRUE, 1..MaxPool)

Init == Start(SchedulerTrees)

InitDriver == Start(DriverTrees)

InitHang == Start(HangTrees)

\* a source root with files below it, or no source root; one worker
InitDiscovery ==
    StartAt(DiscoveryTrees, TRUE, {1}) \/ StartAt({<<>>}, FALSE, {1})

(***************************************************************************)
(* main(): discovery.                                                      *)
(***************************************************************************)
\* the files create_plans hands to create_plan: not the .localized ones
Eligible(files) == SelectSeq(files, LAMBDA f : f.name # ".localized")

\* total_progress.advance(task, 1) for every regular file of the walk
ScannedEligible(files) == Len(Eligible(files))

Scanned(files) == Len(files)

\* where main goes on with n plans: list(executor.map(...)) of none is []
EmptyRaises(n) == IF n = 0 THEN "raised" ELSE "submit"

AfterCreatePlans(n) == IF n = 0 THEN "done" ELSE "submit"

\* create_plans and the add_task of "Files Processed" that follows it
CreatePlans ==
    /\ main.pc = "create_plans"
    /\ LET out == IF main.source_exists THEN PlansOf(Eligible(tree)) ELSE <<>>
           sorted == SortBySource(out)
       IN  /\ tasks' = sorted
           /\ handle' = [j \in 1..Len(sorted) |-> NewHandle(sorted[j])]
           /\ job' = [j \in 1..Len(sorted) |-> NewJob]
           /\ future' = [j \in 1..Len(sorted) |-> "NONE"]
           /\ total' = [total EXCEPT
                  !.scanned = IF main.source_exists THEN Scanned(tree) ELSE 0,
                  !.selected = IF main.source_exists THEN <<Len(out)>> ELSE <<>>,
                  !.processed_total = <<Len(sorted)>>]
           /\ main' = [main EXCEPT !.pc = AfterCreatePlans(Len(sorted)),
                                   !.i = IF Len(sorted) = 0 THEN 0 ELSE 1]
    /\ UNCHANGED <<max_workers, tree, queue, threads, idle>>

(***************************************************************************)
(* The executor.  executor.map submits every plan, then main iterates the  *)
(* results in order; a result that is an exception is raised, after every  *)
(* future still waiting behind it has been cancelled.                      *)
(***************************************************************************)
\* _adjust_thread_count: a new thread only below max_workers
SpawnUnbounded(num_threads, max) == TRUE

SpawnAllowed(num_threads, max) == num_threads < max

\* work_queue.put: first in, first out
EnqueueFirst(q, i) == <<i>> \o q

Enqueue(q, i) == Append(q, i)

\* submit(exec_worker, tasks[i]): a pending future, a work item, maybe a thread
Submit ==
    /\ main.pc = "submit"
    /\ future' = [future EXCEPT ![main.i] = "PENDING"]
    /\ queue' = Enqueue(queue, main.i)
    /\ IF idle > 0
       THEN idle' = idle - 1 /\ threads' = threads
       ELSE /\ idle' = idle
            /\ threads' = IF SpawnAllowed(Len(threads), max_workers)
                          THEN Append(threads, [st |-> "poll", job |-> 0])
                          ELSE threads
    /\ main' = IF main.i = Len(tasks)
               THEN [main EXCEPT !.pc = "wait", !.i = 1]
               ELSE [main EXCEPT !.i = main.i + 1]
    /\ UNCHANGED <<max_workers, tree, tasks, handle, job, total>>

\* list(executor.map(...)): the result of future i, in submission order
WaitResult ==
    /\ main.pc = "wait"
    /\ future[main.i] \in {"FINISHED", "FAILED"}
    /\ main' = IF future[main.i] = "FINISHED"
               THEN IF main.i = Len(tasks)
                    THEN [main EXCEPT !.pc = "done"]
                    ELSE [main EXCEPT !.i = main.i + 1]
               ELSE IF main.i = Len(tasks)
                    THEN [main EXCEPT !.pc = "raised"]
                    ELSE [main EXCEPT !.pc = "cancel", !.k = Len(tasks)]
    /\ UNCHANGED <<max_workers, tree, tasks, handle, job, future, queue,
                   threads, idle, total>>

\* Future.cancel(): only a pending future is cancelled
Cancelled(state) == IF state = "PENDING" THEN "CANCELLED" ELSE state

\* result_iterator's finally: cancel the futures behind i, last first
Cancel ==
    /\ main.pc = "cancel"
    /\ future' = [future EXCEPT ![main.k] = Cancelled(@)]
    /\ main' = IF main.k - 1 = main.i
               THEN [main EXCEPT !.pc = "raised"]
               ELSE [main EXCEPT !.k = main.k - 1]
    /\ UNCHANGED <<max_workers, tree, tasks, handle, job, queue, threads,
                   idle, total>>

(***************************************************************************)
(* A worker thread: _worker's loop.                                        *)
(***************************************************************************)
\* work_queue.get: the item leaves the queue
DequeueKeeps(q) == q

Dequeue(q) == Tail(q)

Waiting(t) == threads[t].st \in {"poll", "wait"}

Running(t) == threads[t].st = "run"

\* work_queue.get: the worker takes the next work item off the queue
Take(t) ==
    /\ Waiting(t)
    /\ queue # <<>>
    /\ queue' = Dequeue(queue)
    /\ threads' = [threads EXCEPT ![t] = [st |-> "taken", job |-> Head(queue)]]
    /\ job' = [job EXCEPT ![Head(queue)].taken = TRUE]
    /\ UNCHANGED <<max_workers, tree, main, tasks, handle, future, idle, total>>

\* work_item.run(): a cancelled item is dropped
\* (set_running_or_notify_cancel), any other calls exec_worker(plan)
RunItem(t) ==
    /\ threads[t].st = "taken"
    /\ LET j == threads[t].job
       IN  IF future[j] = "CANCELLED"
           THEN /\ threads' = [threads EXCEPT ![t] = [st |-> "poll", job |-> 0]]
                /\ UNCHANGED <<future, job>>
           ELSE /\ threads' = [threads EXCEPT ![t].st = "run"]
                /\ future' = [future EXCEPT ![j] = "RUNNING"]
                /\ job' = [job EXCEPT ![j].pc = "start_task",
                                      ![j].executions = @ + 1]
    /\ UNCHANGED <<max_workers, tree, main, tasks, handle, queue, idle, total>>

\* get_nowait found the queue empty: release the idle semaphore and block
GoIdle(t) ==
    /\ threads[t].st = "poll"
    /\ queue = <<>>
    /\ threads' = [threads EXCEPT ![t].st = "wait"]
    /\ idle' = idle + 1
    /\ UNCHANGED <<max_workers, tree, main, tasks, handle, job, future,
                   queue, total>>

\* an exception leaves exec_worker: the future holds it, the thread goes on
Raise(t, j, fields) ==
    /\ job' = [job EXCEPT ![j] = [fields EXCEPT !.pc = "raised"]]
    /\ future' = [future EXCEPT ![j] = "FAILED"]
    /\ threads' = [threads EXCEPT ![t] = [st |-> "poll", job |-> 0]]

(***************************************************************************)
(* Plan.execute: start_task, _execute, completed.                          *)
(***************************************************************************)
\* the cached properties format and file_info: ffprobe runs when neither is
\* cached, and its answer is cached only when it did not raise
ReadFormatUncached(fields, file) == [fields EXCEPT !.probes = @ + 1]

ReadFormat(fields, file) ==
    IF fields.format_cached THEN fields
    ELSE [fields EXCEPT !.probes = @ + 1,
                        !.format_cached = (file.probe = "ok")]

\* file_info raises: check_returncode (non-zero exit) or json.loads
ProbeIgnored(file) == FALSE

ProbeRaises(file) == file.probe \in {"exit_nonzero", "bad_json"}

\* dict.get(key, default)
Get(tags, key, default) == IF key \in DOMAIN tags THEN tags[key] ELSE default

\* Plan.start_task: start the task and show it
ShowHandle(h) == [h EXCEPT !.started = TRUE, !.visible = TRUE]

\* Plan.completed: hide the task
HideHandle(h) == [h EXCEPT !.visible = FALSE]

\* execute(), line 60.  FFMpegPlan.start_task reads format["tags"] three
\* times and duration once before it updates and shows the task; CopyPlan
\* has Plan.start_task alone
StartTask(t) ==
    /\ Running(t)
    /\ LET j == threads[t].job
           plan == tasks[j]
           file == plan.env
           probed == ReadFormat(job[j], file)
       IN  /\ job[j].pc = "start_task"
           /\ IF plan.type = "File Copy"
              THEN /\ handle' = [handle EXCEPT ![j] = ShowHandle(@)]
                   /\ job' = [job EXCEPT ![j].pc = "execute"]
                   /\ UNCHANGED <<future, threads>>
              ELSE IF ProbeRaises(file) \/ ~file.hasTags \/ ~file.hasDuration
              THEN /\ Raise(t, j, probed)
                   /\ UNCHANGED handle
              ELSE LET read == ReadFormat(ReadFormat(ReadFormat(probed, file),
                                                     file), file)
                   IN  /\ handle' = [handle EXCEPT ![j] = ShowHandle(
                              [@ EXCEPT
                                  !.description =
                                      [artist |-> Get(file.tags, "ARTIST", "UA"),
                                       album |-> Get(file.tags, "ALBUM", "UAL"),
                                       title |-> Get(file.tags, "TITLE", plan.name)],
                                  !.total = file.seconds * UsPerSecond])]
                       /\ job' = [job EXCEPT ![j] = [read EXCEPT !.pc = "execute"]]
                       /\ UNCHANGED <<future, threads>>
    /\ UNCHANGED <<max_workers, tree, main, tasks, queue, idle, total>>

\* CopyPlan._execute: mkdir and shutil.copy; an OSError leaves execute
CopyExecute(t) ==
    /\ Running(t)
    /\ LET j == threads[t].job
       IN  /\ job[j].pc = "execute"
           /\ tasks[j].type = "File Copy"
           /\ IF tasks[j].env.copy = "ok"
              THEN /\ job' = [job EXCEPT ![j].pc = "completed"]
                   /\ UNCHANGED <<future, threads>>
              ELSE Raise(t, j, job[j])
    /\ UNCHANGED <<max_workers, tree, main, tasks, handle, queue, idle, total>>

\* FFMpegPlan._execute, lines 151-159: mkdir, Popen of ffmpeg, line = ""
Launch(t) ==
    /\ Running(t)
    /\ LET j == threads[t].job
       IN  /\ job[j].pc = "execute"
           /\ tasks[j].type = "File Recode"
           /\ IF tasks[j].env.launch = "ok"
              THEN /\ job' = [job EXCEPT ![j].pc = "read", ![j].launched = TRUE,
                                         ![j].line = <<>>]
                   /\ UNCHANGED <<future, threads>>
              ELSE Raise(t, j, job[j])
    /\ UNCHANGED <<max_workers, tree, main, tasks, handle, queue, idle, total>>

\* update(completed=...): the value replaces the task's completed
AddCompleted(h, us) == [h EXCEPT !.completed = @ + us]

SetCompleted(h, us) == [h EXCEPT !.completed = us]

\* a value that is not decimal is printed, nothing else
InvalidResets(fields, h, value) ==
    [job |-> [fields EXCEPT !.invalid = Append(@, value), !.progress_us = 0],
     handle |-> SetCompleted(h, 0)]

InvalidValue(fields, h, value) ==
    [job |-> [fields EXCEPT !.invalid = Append(@, value)], handle |-> h]

\* _handle_state_update: the plan's fields and its task after one line
handle_state_update(fields, h, line) ==
    LET kv == Partition(Strip(line))
    IN  IF kv.key = OutTimeUs
        THEN IF IsDecimal(kv.value)
             THEN [job |-> [fields EXCEPT !.progress_us = ParseInt(kv.value)],
                   handle |-> SetCompleted(h, ParseInt(kv.value))]
             ELSE InvalidValue(fields, h, kv.value)
        ELSE [job |-> fields, handle |-> h]

\* one turn of the read loop: readline gave a line
ReadLine(t) ==
    /\ Running(t)
    /\ LET j == threads[t].job
           stream == tasks[j].env.stream
       IN  /\ job[j].pc = "read"
           /\ job[j].read < Len(stream)
           /\ \E line \in {stream[job[j].read + 1]} :
                  \E after \in {handle_state_update(
                                    [job[j] EXCEPT !.line = line, !.read = @ + 1],
                                    handle[j], line)} :
                      /\ job' = [job EXCEPT ![j] = after.job]
                      /\ handle' = [handle EXCEPT ![j] = after.handle]
    /\ UNCHANGED <<max_workers, tree, main, tasks, future, queue, threads,
                   idle, total>>

\* the print of a non-zero return code: the code and the last line read
NoDiagnostic(returncode, line) == <<>>

Diagnostic(returncode, line) ==
    IF returncode # 0 THEN <<[returncode |-> returncode, line |-> line]>>
    ELSE <<>>

\* readline gave "": wait for the exit, print a non-zero return code; an
\* ffmpeg that hangs keeps readline blocked
WaitExit(t) ==
    /\ Running(t)
    /\ LET j == threads[t].job
       IN  /\ job[j].pc = "read"
           /\ job[j].read = Len(tasks[j].env.stream)
           /\ ~tasks[j].env.hang
           /\ job' = [job EXCEPT
                  ![j].pc = "completed",
                  ![j].failed = Diagnostic(tasks[j].env.exit, job[j].line)]
    /\ UNCHANGED <<max_workers, tree, main, tasks, handle, future, queue,
                   threads, idle, total>>

\* execute(), line 62: completed()
Completed(t) ==
    /\ Running(t)
    /\ LET j == threads[t].job
       IN  /\ job[j].pc = "completed"
           /\ handle' = [handle EXCEPT ![j] = HideHandle(@)]
           /\ job' = [job EXCEPT ![j].pc = "advance", ![j].hidden = @ + 1]
    /\ UNCHANGED <<max_workers, tree, main, tasks, future, queue, threads,
                   idle, total>>

\* total_progress.advance(total_task, 1), under the Progress's lock
Advanced(processed) == processed + 1

\* exec_worker, line 80, and its return: the future holds the result
Advance(t) ==
    /\ Running(t)
    /\ LET j == threads[t].job
       IN  /\ job[j].pc = "advance"
           /\ total' = [total EXCEPT !.processed = Advanced(@)]
           /\ job' = [job EXCEPT ![j].pc = "done"]
           /\ future' = [future EXCEPT ![j] = "FINISHED"]
           /\ threads' = [threads EXCEPT ![t] = [st |-> "poll", job |-> 0]]
    /\ UNCHANGED <<max_workers, tree, main, tasks, handle, queue, idle>>

Next ==
    \/ CreatePlans
    \/ Submit
    \/ WaitResult
    \/ Cancel
    \/ \E t \in Threads : Take(t)
    \/ \E t \in Threads : RunItem(t)
    \/ \E t \in Threads : GoIdle(t)
    \/ \E t \in Threads : StartTask(t)
    \/ \E t \in Threads : CopyExecute(t)
    \/ \E t \in Threads : Launch(t)
    \/ \E t \in Threads : ReadLine(t)
    \/ \E t \in Threads : WaitExit(t)
    \/ \E t \in Threads : Completed(t)
    \/ \E t \in Threads : Advance(t)

\* the scheduler, over every way a job can end
Spec == Init /\ [][Next]_vars

\* the transcode driver, over every progress stream
SpecDriver == InitDriver /\ [][Next]_vars

\* discovery, over every walk of a tree
SpecDiscovery == InitDiscovery /\ [][Next]_vars

\* the steps of worker thread t
WorkerStep(t) ==
    /\ t \in Threads
    /\ \/ Take(t) \/ RunItem(t) \/ GoIdle(t)
       \/ StartTask(t) \/ CopyExecute(t) \/ Launch(t)
       \/ ReadLine(t) \/ WaitExit(t) \/ Completed(t) \/ Advance(t)

\* the operating system schedules every thread that can run: the main
\* thread and each worker thread of the pool
Fairness ==
    /\ WF_vars(CreatePlans \/ Submit \/ WaitResult \/ Cancel)
    /\ \A t \in 1..MaxPool : WF_vars(WorkerStep(t))

\* the scheduler with one ffmpeg that hangs, every thread scheduled fairly
SpecHang == InitHang /\ [][Next]_vars /\ Fairness

(***************************************************************************)
(* The terms of the properties.                                            *)
(***************************************************************************)
\* execute() has ended for the job: it returned or it raised
Ended(j) == job[j].pc \in {"done", "raised"}

\* the jobs a worker has started and that have not returned
InFlight == {j \in Jobs : future[j] = "RUNNING"}

\* main() is past list(executor.map(...)): it returned or the exception left it
PastWait == main.pc \in {"done", "raised"}

\* nothing is left to run: main is past the wait and no future is unsettled
ExecutionOver ==
    /\ PastWait
    /\ \A j \in Jobs : future[j] \in {"FINISHED", "FAILED", "CANCELLED"}

\* the last line a stream holds, "" for an empty stream
LastLine(stream) == IF Len(stream) = 0 THEN <<>> ELSE stream[Len(stream)]

\* the elapsed time a valid line was written from
ValueOf(line) ==
    CHOOSE us \in ProgressValues :
        line \in {ProgressLine(us), <<" ">> \o ProgressLine(us)}

\* the last elapsed time a stream reports, 0 when it reports none
RECURSIVE LastValue(_)
LastValue(stream) ==
    IF Len(stream) = 0 THEN 0
    ELSE IF LastLine(stream) \in ValidLines THEN ValueOf(LastLine(stream))
    ELSE LastValue(SubSeq(stream, 1, Len(stream) - 1))

\* the worker of job j reads its next line, a line of the set
Reads(j, lines) ==
    /\ job[j].pc = "read"
    /\ job'[j].read = job[j].read + 1
    /\ tasks[j].env.stream[job'[j].read] \in lines

Transcode(j) == tasks[j].type = "File Recode"

(***************************************************************************)
(* C1..C4: what an exception in a job does to the run.                     *)
(***************************************************************************)
\* C1: once the execution phase is over, "Files Processed" has advanced to
\* the number of selected jobs, whatever the outcome of each job.
C1_ProcessedEqualsSelected ==
    ExecutionOver => total.processed = Len(tasks)

\* C2: a failed job is isolated: no job is ever cancelled, and once the
\* execution phase is over every job has been started by a worker.
C2_FailureIsolated ==
    \A k \in Jobs :
        /\ future[k] # "CANCELLED"
        /\ ExecutionOver => job[k].executions = 1

\* C3: when a job's execution has ended, also by an exception, its handle
\* is not visible, and a handle that was shown has been hidden exactly once.
C3_HandleReleased ==
    \A j \in Jobs :
        Ended(j) =>
            /\ ~handle[j].visible
            /\ handle[j].started => job[j].hidden = 1

\* C4: when main is past the wait on the pool, no job is queued or in flight.
C4_WaitsForEveryJob ==
    PastWait => \A j \in Jobs : future[j] \notin {"PENDING", "RUNNING"}

(***************************************************************************)
(* C5, C6: the pool.                                                       *)
(***************************************************************************)
\* C5: no job's execute is invoked twice and no job is held by two workers.
C5_ExecutedAtMostOnce ==
    \A j \in Jobs :
        /\ job[j].executions <= 1
        /\ Cardinality({t \in Threads : Running(t) /\ threads[t].job = j}) <= 1

\* two workers each hold a job of their own
C5_Witness ==
    \E t, u \in Threads :
        /\ Running(t) /\ Running(u)
        /\ threads[t].job # threads[u].job
        /\ job[threads[t].job].executions = 1
        /\ job[threads[u].job].executions = 1

\* C6: the jobs in flight are at most the pool size.
C6_BoundedParallelism ==
    /\ Cardinality(InFlight) <= max_workers
    /\ Len(threads) <= max_workers

\* the pool is full and a job waits in the queue
C6_Witness ==
    /\ Cardinality(InFlight) = max_workers
    /\ \E j \in Jobs : future[j] = "PENDING"

(***************************************************************************)
(* C7..C10: the transcode driver.                                          *)
(***************************************************************************)
\* C7: a transcoder that exits non-zero is printed as a failure with its
\* exit code and the last line read; the job does not raise, its completed
\* value is the last valid out_time_us, and when it has returned its handle
\* is hidden and it is counted as processed.
C7_NonZeroExitReported ==
    \A j \in Jobs :
        (Transcode(j) /\ tasks[j].env.exit # 0 /\ job[j].launched) =>
            /\ job[j].pc # "raised"
            /\ job[j].pc \in {"completed", "advance", "done"} =>
                   /\ job[j].failed =
                          <<[returncode |-> tasks[j].env.exit,
                             line |-> LastLine(tasks[j].env.stream)]>>
                   /\ handle[j].completed = LastValue(tasks[j].env.stream)
            /\ job[j].pc = "done" =>
                   /\ future[j] = "FINISHED"
                   /\ ~handle[j].visible /\ job[j].hidden = 1
                   /\ total.processed = Cardinality({k \in Jobs : job[k].pc = "done"})

\* the scenario: 500000, then N/A, exit code 1
C7_Witness ==
    \E j \in Jobs :
        /\ tasks[j].env.stream = ScenarioStream
        /\ tasks[j].env.exit = 1
        /\ job[j].pc = "done"
        /\ job[j].failed =
               <<[returncode |-> 1,
                  line |-> KeyValueLine(OutTimeUs, <<"N", "/", "A">>)]>>
        /\ handle[j].completed = 500000
        /\ total.processed >= 1

\* C8: a line out_time_us=<decimal> sets completed (and progress_us) to
\* exactly that value, so completed always is the last valid value read.
C8_ValidLineSetsCompleted ==
    /\ [][\A j \in Jobs : \A us \in ProgressValues :
              Reads(j, {ProgressLine(us)}) =>
                  /\ handle'[j].completed = us
                  /\ job'[j].progress_us = us]_vars
    /\ [](\A j \in Jobs :
              job[j].launched =>
                  handle[j].completed =
                      LastValue(SubSeq(tasks[j].env.stream, 1, job[j].read)))

\* two increasing values have been read, and completed is the second
C8_Witness ==
    \E j \in Jobs :
        /\ tasks[j].env.stream = <<ProgressLine(7), ProgressLine(12)>>
        /\ job[j].read = 2
        /\ handle[j].completed = 12

\* C9: a line with a non-decimal out_time_us value, or with another key,
\* changes neither completed nor progress_us and does not end the loop; the
\* loop reads to the end of the stream, and the job is printed as failed
\* exactly when the exit code is not zero.
C9_OtherLinesIgnored ==
    /\ [][\A j \in Jobs :
              Reads(j, NonDecimalLines \cup OtherKeyLines) =>
                  /\ handle'[j].completed = handle[j].completed
                  /\ job'[j].progress_us = job[j].progress_us
                  /\ job'[j].pc = "read"
                  /\ future'[j] = "RUNNING"]_vars
    /\ [](\A j \in Jobs :
              job[j].launched =>
                  /\ job[j].pc # "raised"
                  /\ job[j].pc \in {"completed", "advance", "done"} =>
                         /\ job[j].read = Len(tasks[j].env.stream)
                         /\ (job[j].failed # <<>>) = (tasks[j].env.exit # 0))

\* a job that read 7 and then N/A has returned, exit code 0, completed 7
C9_Witness ==
    \E j \in Jobs :
        /\ tasks[j].env.stream =
               <<ProgressLine(7), KeyValueLine(OutTimeUs, <<"N", "/", "A">>)>>
        /\ tasks[j].env.exit = 0
        /\ job[j].pc = "done"
        /\ job[j].invalid = <<<<"N", "/", "A">>>>
        /\ handle[j].completed = 7
        /\ job[j].failed = <<>>

\* C10: a job whose probe failed never launches the transcoder; its
\* execute raises from start_task.
C10_ProbeFailureBeforeLaunch ==
    \A j \in Jobs :
        tasks[j].env.probe \in {"exit_nonzero", "bad_json"} =>
            /\ ~job[j].launched
            /\ job[j].pc \in {"new", "start_task", "raised"}
            /\ job[j].pc = "raised" => future[j] = "FAILED" /\ job[j].probes = 1

\* a job whose probe gave unparseable output has raised, ffmpeg not launched
C10_Witness ==
    \E j \in Jobs :
        /\ tasks[j].env.probe = "bad_json"
        /\ job[j].pc = "raised"
        /\ job[j].probes = 1
        /\ ~job[j].launched

(***************************************************************************)
(* C11, C19, C20: metadata, the probe cache, the visible handles.          *)
(***************************************************************************)
\* the probe answered, but without a tags section or without a duration
MetadataMissing(j) ==
    /\ Transcode(j)
    /\ tasks[j].env.probe = "ok"
    /\ ~tasks[j].env.hasTags \/ ~tasks[j].env.hasDuration

\* C11: a transcode whose probe gives no tags or no duration does not
\* abort: its execute does not raise before the transcoder is launched, and
\* it is labelled by the filename with the fallbacks UA and UAL.
C11_MetadataFailureDegrades ==
    \A j \in Jobs :
        MetadataMissing(j) =>
            /\ job[j].pc # "raised"
            /\ job[j].launched =>
                   handle[j].description =
                       [artist |-> "UA", album |-> "UAL", title |-> tasks[j].name]

\* C19: ffprobe runs at most once for a job, however often format is read.
C19_ProbedAtMostOnce ==
    \A j \in Jobs : job[j].probes <= 1

\* a transcode has returned: tags read three times, duration once, one probe
C19_Witness ==
    \E j \in Jobs :
        /\ Transcode(j)
        /\ job[j].pc = "done"
        /\ job[j].format_cached
        /\ job[j].probes = 1

\* C20: the visible handles are at most the pool size, and a handle is
\* visible only while a worker is executing its job.
C20_VisibleWithinPool ==
    /\ Cardinality({j \in Jobs : handle[j].visible}) <= max_workers
    /\ \A j \in Jobs : handle[j].visible => future[j] = "RUNNING"


(***************************************************************************)
(* Discovery.  The walk is source.glob("**") as Python 3.13 and later      *)
(* enumerate it, files as well as directories (ui.py imports               *)
(* typing.override, so the interpreter is 3.12 or later; on 3.12 the       *)
(* pattern yields directories only and no file is ever discovered).        *)
(***************************************************************************)
\* discovery has run over an existing source root
Discovered == main.pc # "create_plans" /\ main.source_exists

\* the files of the walk named as an ignored glob
IgnoredFiles == {i \in 1..Len(tree) : tree[i].name \in ignored_globs}

\* C13: every regular file under the source root, the ignored ones too,
\* advances "files scanned" by one; an ignored file gets no job and is
\* not counted as selected
C13_IgnoredScannedNotSelected ==
    Discovered =>
        /\ total.scanned = Len(tree)
        /\ \A i \in IgnoredFiles : \A j \in Jobs : tasks[j].source # tree[i].path
        /\ total.selected = <<Len(tasks)>>
        /\ Len(tasks) <= Len(tree) - Cardinality(IgnoredFiles)

\* the tree {a.flac, b.mp3, c.jpg, .localized}: scanned 4, selected 2
C13_Witness ==
    /\ Discovered
    /\ {tree[i].name : i \in 1..Len(tree)} = {"a.flac", "b.mp3", "c.jpg", ".localized"}
    /\ total.scanned = 4
    /\ total.selected = <<2>>
    /\ {tasks[j].name : j \in Jobs} = {"a.flac", "b.mp3"}


\* the jobs discovery made of the file at place i of the walk
JobsOf(i) == {j \in Jobs : tasks[j].source = tree[i].path}

\* the file's path relative to the source root, below the destination root
Mirrored(file, suffix) ==
    [parts |-> DestRoot \o file.dir, stem |-> file.stem, suffix |-> suffix]

\* C14: a file that is not ignored is classified by its lowercased
\* extension: a transcode extension gives one transcode job whose
\* destination is the mirrored path with the extension .ogg, a copy
\* extension one copy job whose mirrored destination keeps the extension,
\* any other extension no job
C14_ClassifiedByExtension ==
    Discovered =>
        \A i \in 1..Len(tree) :
            tree[i].name \notin ignored_globs =>
                CASE tree[i].suffix \in {".ape", ".flac", ".FLAC", ".m4a", ".mp4"} ->
                         /\ Cardinality(JobsOf(i)) = 1
                         /\ \A j \in JobsOf(i) :
                                /\ tasks[j].type = "File Recode"
                                /\ tasks[j].dest = Mirrored(tree[i], ".ogg")
                  [] tree[i].suffix \in {".ogg", ".cue", ".mp3", ".MP3"} ->
                         /\ Cardinality(JobsOf(i)) = 1
                         /\ \A j \in JobsOf(i) :
                                /\ tasks[j].type = "File Copy"
                                /\ tasks[j].dest = Mirrored(tree[i], tree[i].suffix)
                  [] OTHER -> JobsOf(i) = {}

\* music/Live/D.FLAC goes to out/Live/D.ogg and music/b.mp3 to out/b.mp3,
\* next to a skipped c.jpg and an unhandled e.xyz
C14_Witness ==
    /\ Discovered
    /\ {tree[i].name : i \in 1..Len(tree)} = {"D.FLAC", "b.mp3", "c.jpg", "e.xyz"}
    /\ Len(tasks) = 2
    /\ tasks[1].type = "File Recode"
    /\ tasks[1].dest = [parts |-> <<"out", "Live">>, stem |-> "D", suffix |-> ".ogg"]
    /\ tasks[2].type = "File Copy"
    /\ tasks[2].dest = [parts |-> <<"out">>, stem |-> "b", suffix |-> ".mp3"]


\* the walk of the same tree in the enumeration order p
Reordered(p) == [i \in 1..Len(tree) |-> tree[p[i]]]

\* the plans of a list, as a set
Range(plans) == {plans[j] : j \in 1..Len(plans)}

\* C15: whatever the enumeration order of the walk of an unchanged tree,
\* a run of discovery gives the same jobs (source, destination, variant)
\* as the run that made the job list, and the list is in ascending order
\* of source path
C15_DiscoveryDeterministic ==
    [][main.pc = "create_plans" /\ main.source_exists =>
           /\ \A p \in Permutations(1..Len(tree)) :
                  /\ Range(tasks') = Range(PlansOf(Eligible(Reordered(p))))
                  /\ Len(tasks') = Len(PlansOf(Eligible(Reordered(p))))
           /\ \A j, k \in 1..Len(tasks') :
                  j < k => tasks'[j].source < tasks'[k].source]_vars

\* a walk that meets b.mp3 before a.flac, and a.flac before Live/D.FLAC
C15_Witness ==
    /\ Discovered
    /\ Len(tree) >= 3
    /\ tree[1].name = "b.mp3" /\ tree[2].name = "a.flac" /\ tree[3].name = "D.FLAC"
    /\ Len(tasks) = 3
    /\ tasks[1].name = "D.FLAC" /\ tasks[2].name = "a.flac" /\ tasks[3].name = "b.mp3"


\* C16: without a source root discovery gives no job and raises nothing:
\* once it has run main is done, with no job selected, none processed,
\* and at no time a queued work item, a worker thread or a job executed
C16_MissingRootEmptyRun ==
    ~main.source_exists =>
        /\ main.pc \in {"create_plans", "done"}
        /\ queue = <<>>
        /\ threads = <<>>
        /\ total.processed = 0
        /\ main.pc = "done" =>
               /\ Len(tasks) = 0
               /\ total.scanned = 0
               /\ total.processed_total = <<0>>

\* the run over a missing source root has ended
C16_Witness ==
    /\ ~main.source_exists
    /\ main.pc = "done"
    /\ tasks = <<>>


\* some worker takes a job in this step
JobBegins == \E j \in 1..Len(job) : job'[j].executions > job[j].executions

\* C17: discovery and execution are separate phases: while discovery runs
\* there is no job, work item or worker and no job begins; when it ends
\* every handle it made is invisible and not started and no job has begun;
\* afterwards the list of jobs and the "Files Processed" total never change
C17_DiscoveryBeforeExecution ==
    [][/\ main.pc = "create_plans" =>
              /\ tasks = <<>> /\ queue = <<>> /\ threads = <<>>
              /\ ~JobBegins
              /\ total'.processed_total = <<Len(tasks')>>
              /\ \A j \in 1..Len(tasks') :
                     /\ ~handle'[j].visible
                     /\ ~handle'[j].started
                     /\ job'[j].executions = 0
                     /\ future'[j] = "NONE"
       /\ main.pc # "create_plans" =>
              /\ tasks' = tasks
              /\ total'.processed_total = total.processed_total]_vars

\* the first job runs, its handle shown, while main still submits the
\* second, whose handle is as discovery left it
C17_Witness ==
    /\ main.pc = "submit"
    /\ Len(tasks) = 2
    /\ total.processed_total = <<2>>
    /\ job[1].executions = 1
    /\ handle[1].visible
    /\ job[2].executions = 0
    /\ ~handle[2].visible /\ ~handle[2].started


\* a worker has taken job j off the queue
Taken(j) == job[j].taken

\* C18: jobs begin in the order of their source paths: a job is taken by a
\* worker only when every job whose source path sorts before its own has
\* been taken; nothing is said of the order in which they end
C18_BegunInSourceOrder ==
    \A A, B \in Jobs :
        tasks[A].source < tasks[B].source /\ Taken(B) => Taken(A)

\* both jobs were begun in order and the later one has returned while the
\* earlier one still runs
C18_Witness ==
    \E A, B \in Jobs :
        /\ tasks[A].source < tasks[B].source
        /\ Taken(A) /\ Taken(B)
        /\ future[A] = "RUNNING"
        /\ future[B] = "FINISHED"


\* the jobs other than the one whose ffmpeg hangs
OtherJobs == {j \in Jobs : ~tasks[j].env.hang}

\* job j was started, returned and was counted as processed
Processed(j) == job[j].pc = "done"

\* C12: with a pool of more than one worker, while one job's ffmpeg never
\* terminates, every other discovered job is eventually started, returns
\* and is counted as processed
C12_HangStallsOneSlot ==
    max_workers > 1 =>
        <>(main.pc # "create_plans" /\ \A j \in OtherJobs : Processed(j))

============================================================================
